---- MODULE Spec2Model ----
(***************************************************************************)
(* Model of BPlusTree (src/src/storage/index/b_plus_tree.cpp): the header  *)
(* page, the node pages with their slot arrays (stale slots included), and *)
(* the operations GetValue, Insert and Remove as the code executes them    *)
(* when called one after another by a single thread.                       *)
(*                                                                         *)
(* Page ids are handed out in increasing order starting at 1 (the header   *)
(* is page 0) and a fresh page is zero-filled.  DeletePage only records    *)
(* the page id: the bytes of the page stay as they were.                   *)
(***************************************************************************)
EXTENDS Integers, Sequences, FiniteSets, TLC

(* ------------------------------ bounds -------------------------------- *)
LeafMaxSize == 3        \* leaf_max_size passed to the constructor
InternalMaxSize == 3    \* internal_max_size passed to the constructor
MaxKey == 5             \* Spec: keys 1..MaxKey
MaxOps == 5             \* Spec: at most MaxOps Insert/Remove calls
MaxVal == 2             \* values 1..MaxVal
MaxInsertKey == 8       \* SpecInsert: keys 1..MaxInsertKey
MaxInsertOps == 9       \* SpecInsert: at most MaxInsertOps Insert calls
LoadKeys == 8           \* SpecLoad: keys 1..LoadKeys inserted in ascending order
MaxLoadOps == 3         \* SpecLoad: at most MaxLoadOps calls after the load
MaxBatchKey == 4        \* SpecBatch: keys 1..MaxBatchKey
MaxBatchOps == 8        \* SpecBatch: at most MaxBatchOps lines in the file
MaxSizesKey == 5        \* SpecSizes: keys 1..MaxSizesKey
MaxSizesOps == 5        \* SpecSizes: at most MaxSizesOps Insert/Remove calls
MaxScenarioOps == 4     \* SpecScenario: at most MaxScenarioOps Inserts after 1..5
NumThreads == 2         \* SpecThreads: threads 1..NumThreads, one call each
ThreadLoadKeys == 4     \* SpecThreads: keys 1..ThreadLoadKeys are in the tree
MaxThreadKey == 3       \* SpecThreads: the calls use keys 1..MaxThreadKey
ReaderLoadKeys == 5     \* SpecReaders: keys 1..ReaderLoadKeys are in the tree
ReaderNewKeys == 2      \* SpecReaders: Insert uses the next ReaderNewKeys keys
MaxSplitSize == 4       \* SpecSplit: leaf_max_size, internal_max_size in 3..MaxSplitSize
MaxSplitOps == 11       \* SpecSplit: at most MaxSplitOps Insert calls
MaxFindKey == 4         \* SpecFind: the keys of the page are among 1..MaxFindKey
MaxFindSize == 4        \* SpecFind: the page holds at most MaxFindSize entries

Keys == 1..MaxKey
InsertKeys == 1..MaxInsertKey
LoadKeySet == 1..LoadKeys
BatchKeys == 1..MaxBatchKey
SizesKeys == 1..MaxSizesKey
Threads == 1..NumThreads
ThreadKeys == 1..MaxThreadKey
ReaderKeys == 1..ReaderLoadKeys
ReaderInsertKeys == (ReaderLoadKeys + 1)..(ReaderLoadKeys + ReaderNewKeys)

\* RID(int64_t rid): page_id_ = rid >> 32, slot_num_ = the low 32 bits of rid;
\* every n used here is below 2^32, so the high half is 0
RidOf(n) == [page_id_ |-> 0, slot_num_ |-> n]
Values == {RidOf(n) : n \in 1..MaxVal}

MaxOf(a, b) == IF a >= b THEN a ELSE b
\* number of slots of a page's array: the code never writes past
\* max_size + min_size, and the page is far larger than that
SlotCount == 2 * MaxOf(LeafMaxSize, InternalMaxSize) + 2
Slots == 0..(SlotCount - 1)

INVALID_PAGE_ID == -1
\* the header page; node pages have the ids 1, 2, ...
header_page_id_ == 0

VARIABLES
    leaf_max_size_,      \* BPlusTree::leaf_max_size_
    internal_max_size_,  \* BPlusTree::internal_max_size_
    root_page_id_,       \* BPlusTreeHeaderPage::root_page_id_
    pages,               \* the node pages of the buffer pool, by page id
    deleted,             \* page ids passed to DeletePage
    last,                \* the last call: operation, key, result (value: what GetValue found)
    model,               \* keys whose Insert returned true, not since passed to Remove
    shape,               \* form of the call history: "ins", "rem" or "other"
    K,                   \* keys inserted while shape = "ins"
    R,                   \* keys removed while shape = "rem"
    nops,                \* number of Insert/Remove calls so far
    th,                  \* per thread: position in its call and the call's locals
    held                 \* the page guards held: [thread, page, mode]

vars == <<leaf_max_size_, internal_max_size_, root_page_id_, pages, deleted,
          last, model, shape, K, R, nops, th, held>>

(* ------------------------------ pages --------------------------------- *)
Entry(k, v) == [key |-> k, value |-> v]
\* the zero-filled array of a fresh page, read as a leaf and as an internal page
ZeroLeafArray == [j \in Slots |-> Entry(0, RidOf(0))]
ZeroArray == [j \in Slots |-> Entry(0, 0)]

KeyAt(page, j) == page.array_[j].key
ValueAt(page, j) == page.array_[j].value
IsLeafPage(page) == page.page_type_ = "LEAF"
GetMinSize(page) == (page.max_size_ + 1) \div 2

\* a page returned by NewPageGuarded, after Init(max_size) and SetPageType
NewLeafPage(max_size) ==
    [page_type_ |-> "LEAF", size_ |-> 0, max_size_ |-> max_size,
     next_page_id_ |-> INVALID_PAGE_ID, array_ |-> ZeroLeafArray]
NewInternalPage(max_size) ==
    [page_type_ |-> "INTERNAL", size_ |-> 0, max_size_ |-> max_size,
     next_page_id_ |-> INVALID_PAGE_ID, array_ |-> ZeroArray]

\* page id handed out by the next NewPageGuarded
NextPageId(pgs) == Len(pgs) + 1

(* --------------------------- BinaryFind ------------------------------- *)
RECURSIVE BinaryFindLoop(_, _, _, _)
BinaryFindLoop(page, key, l, r) ==
    IF l < r
    THEN LET mid == (l + r + 1) \div 2
         IN  IF KeyAt(page, mid) <= key
             THEN BinaryFindLoop(page, key, mid, r)
             ELSE BinaryFindLoop(page, key, l, mid - 1)
    ELSE r

\* as BinaryFindLeaf, but without the final comparison of the slot's key
BinaryFindLeaf_NoTest(page, key) ==
    BinaryFindLoop(page, key, 0, page.size_ - 1)

BinaryFindLeaf(page, key) ==
    LET r == BinaryFindLoop(page, key, 0, page.size_ - 1)
    IN  IF r >= 0
        THEN (IF KeyAt(page, r) > key THEN -1 ELSE r)
        ELSE r

BinaryFindInternal(page, key) ==
    LET r == BinaryFindLoop(page, key, 1, page.size_ - 1)
    IN  IF r = -1
        THEN 0
        ELSE (IF KeyAt(page, r) > key THEN 0 ELSE r)

(* ----------------------------- GetValue ------------------------------- *)
\* the leaf the descent for key ends at
RECURSIVE FindLeaf(_, _, _)
FindLeaf(pgs, pid, key) ==
    IF IsLeafPage(pgs[pid])
    THEN pid
    ELSE FindLeaf(pgs, ValueAt(pgs[pid], BinaryFindInternal(pgs[pid], key)), key)

LeafHasKey(leaf_page, key) ==
    LET slot_num == BinaryFindLeaf(leaf_page, key)
    IN  IF slot_num = -1 THEN FALSE ELSE KeyAt(leaf_page, slot_num) = key

\* [found, value]: the return value and the value pushed to result
GetValue(root, pgs, key) ==
    IF root = INVALID_PAGE_ID
    THEN [found |-> FALSE, value |-> RidOf(0)]
    ELSE LET leaf_page == pgs[FindLeaf(pgs, root, key)]
             slot_num == BinaryFindLeaf(leaf_page, key)
         IN  IF LeafHasKey(leaf_page, key)
             THEN [found |-> TRUE, value |-> ValueAt(leaf_page, slot_num)]
             ELSE [found |-> FALSE, value |-> RidOf(0)]

IsEmpty == root_page_id_ = INVALID_PAGE_ID

(* ------------------------------- Begin -------------------------------- *)
\* the iterator INDEXITERATOR_TYPE(bpm_, page id, index); End() is (-1, -1)
IndexIterator(page_id, index) == [page_id |-> page_id, index |-> index]
End == IndexIterator(-1, -1)

\* Begin(key): the descent of GetValue, then the slot BinaryFind gives
Begin(root, pgs, key) ==
    IF root = INVALID_PAGE_ID
    THEN End
    ELSE LET leaf_id == FindLeaf(pgs, root, key)
             slot_num == BinaryFindLeaf(pgs[leaf_id], key)
         IN  IF slot_num # -1 THEN IndexIterator(leaf_id, slot_num) ELSE End

(* ------------------------------ Insert -------------------------------- *)
\* road: page ids from the root (first) to the leaf (last)
RECURSIVE InsertRoad(_, _, _)
InsertRoad(pgs, pid, key) ==
    IF IsLeafPage(pgs[pid])
    THEN <<pid>>
    ELSE <<pid>> \o
         InsertRoad(pgs, ValueAt(pgs[pid], BinaryFindInternal(pgs[pid], key)), key)

\* as InsertKeyExists, but the key is compared with slot 0, not the slot found
InsertKeyExists_FirstSlot(leaf_page, key) ==
    LET slot_num == BinaryFindLeaf(leaf_page, key)
    IN  IF slot_num = -1 THEN FALSE ELSE KeyAt(leaf_page, 0) = key

\* the duplicate test on the leaf the descent reached
InsertKeyExists(leaf_page, key) ==
    LET slot_num == BinaryFindLeaf(leaf_page, key)
    IN  IF slot_num = -1 THEN FALSE ELSE KeyAt(leaf_page, slot_num) = key

\* first slot in [0, size) whose key is greater, else size
InsertPos(page, key) ==
    LET greater == {j \in 0..(page.size_ - 1) : KeyAt(page, j) > key}
    IN  IF greater = {}
        THEN page.size_
        ELSE CHOOSE j \in greater : \A jj \in greater : j <= jj

\* IncreaseSize(1), shift the slots above pos up by one, store at pos
InsertEntry(page, key, value) ==
    LET pos == InsertPos(page, key)
    IN  [page EXCEPT
           !.size_ = @ + 1,
           !.array_ = [j \in Slots |->
                         IF j = pos THEN Entry(key, value)
                         ELSE IF j > pos /\ j <= page.size_
                              THEN page.array_[j - 1]
                              ELSE page.array_[j]]]

\* as SplitHalf, but rounded up
SplitHalf_Up(page) == (page.size_ + 1) \div 2

SplitHalf(page) == page.size_ \div 2

\* the new right sibling: slots [half, size) of the over-full page
SplitNewPage(page, fresh) ==
    LET half == SplitHalf(page)
    IN  [fresh EXCEPT
           !.size_ = page.size_ - half,
           !.array_ = [j \in Slots |->
                         IF j + half < page.size_
                         THEN page.array_[j + half]
                         ELSE fresh.array_[j]]]

\* leaf split: the over-full leaf and its new right sibling new_id
LeafSplitOld(leaf_page, new_id) ==
    [leaf_page EXCEPT !.next_page_id_ = new_id, !.size_ = SplitHalf(leaf_page)]

\* as LeafSplitNew, but the new leaf's next_page_id_ is left as Init set it
LeafSplitNew_NoNext(leaf_page, max_size) ==
    SplitNewPage(leaf_page, NewLeafPage(max_size))

LeafSplitNew(leaf_page, max_size) ==
    SplitNewPage(leaf_page,
                 [NewLeafPage(max_size) EXCEPT
                    !.next_page_id_ = leaf_page.next_page_id_])

InternalSplitOld(internal_page) ==
    [internal_page EXCEPT !.size_ = SplitHalf(internal_page)]
InternalSplitNew(internal_page, max_size) ==
    SplitNewPage(internal_page, NewInternalPage(max_size))

\* the root made when the split reaches road[0]
NewRootPage(old_page, old_id, new_key, new_page_id, max_size) ==
    [NewInternalPage(max_size) EXCEPT
       !.size_ = 2,
       !.array_ = [j \in Slots |->
                     IF j = 0 THEN Entry(KeyAt(old_page, 0), old_id)
                     ELSE IF j = 1 THEN Entry(new_key, new_page_id)
                     ELSE ZeroArray[j]]]

\* one pass of the bottom-up loop at road[i], and the passes above it;
\* s = [root, pgs]; (key, value) is the entry to store at this level
RECURSIVE InsertLoop(_, _, _, _, _, _, _)
InsertLoop(s, road, i, key, value, lmax, imax) ==
    LET pid == road[i]
        is_leaf == i = Len(road)
        page == InsertEntry(s.pgs[pid], key, value)
    IN  IF page.size_ <= page.max_size_
        THEN [s EXCEPT !.pgs[pid] = page]
        ELSE LET new_id == NextPageId(s.pgs)
                 old_page == IF is_leaf THEN LeafSplitOld(page, new_id)
                                        ELSE InternalSplitOld(page)
                 new_page == IF is_leaf THEN LeafSplitNew(page, lmax)
                                        ELSE InternalSplitNew(page, imax)
                 new_key == KeyAt(new_page, 0)
                 pgs1 == Append([s.pgs EXCEPT ![pid] = old_page], new_page)
             IN  IF i = 1
                 THEN [root |-> NextPageId(pgs1),
                       pgs |-> Append(pgs1,
                                 NewRootPage(old_page, pid, new_key, new_id, imax))]
                 ELSE InsertLoop([s EXCEPT !.pgs = pgs1], road, i - 1,
                                 new_key, new_id, lmax, imax)

\* the whole call: [ret, root, pgs]
InsertResult(root, pgs, key, value, lmax, imax) ==
    LET s0 == IF root = INVALID_PAGE_ID
              THEN [root |-> NextPageId(pgs), pgs |-> Append(pgs, NewLeafPage(lmax))]
              ELSE [root |-> root, pgs |-> pgs]
        road == InsertRoad(s0.pgs, s0.root, key)
        leaf_page == s0.pgs[road[Len(road)]]
    IN  IF InsertKeyExists(leaf_page, key)
        THEN [ret |-> FALSE, root |-> s0.root, pgs |-> s0.pgs]
        ELSE LET s1 == InsertLoop(s0, road, Len(road), key, value, lmax, imax)
             IN  [ret |-> TRUE, root |-> s1.root, pgs |-> s1.pgs]

(* ------------------------------ Remove -------------------------------- *)
\* road: <<page id, slot>> from the root (first) to the leaf (last); the
\* slot of an internal page is the child slot taken, the leaf's is set later
RECURSIVE RemoveRoad(_, _, _)
RemoveRoad(pgs, pid, key) ==
    IF IsLeafPage(pgs[pid])
    THEN <<[first |-> pid, second |-> 0]>>
    ELSE LET slot_num == BinaryFindInternal(pgs[pid], key)
         IN  <<[first |-> pid, second |-> slot_num]>> \o
             RemoveRoad(pgs, ValueAt(pgs[pid], slot_num), key)

\* as RemoveKeyAbsent, but without the comparison of the slot's key with key
RemoveKeyAbsent_NoCompare(leaf_page, key) ==
    BinaryFindLeaf(leaf_page, key) = -1

\* the absent test on the leaf the descent reached
RemoveKeyAbsent(leaf_page, key) ==
    LET slot_num == BinaryFindLeaf(leaf_page, key)
    IN  IF slot_num = -1 THEN TRUE ELSE KeyAt(leaf_page, slot_num) # key

\* IncreaseSize(-1), shift the slots above slot down by one
RemoveEntry(page, slot) ==
    [page EXCEPT
       !.size_ = @ - 1,
       !.array_ = [j \in Slots |->
                     IF j >= slot /\ j < page.size_ - 1
                     THEN page.array_[j + 1]
                     ELSE page.array_[j]]]

\* the left sibling after the leaf's entries were copied into it
LeafMergeSibling(sibling_page, leaf_page) ==
    [sibling_page EXCEPT
       !.size_ = @ + leaf_page.size_,
       !.array_ = [j \in Slots |->
                     IF j >= leaf_page.size_ /\ j < 2 * leaf_page.size_
                     THEN leaf_page.array_[j - leaf_page.size_]
                     ELSE sibling_page.array_[j]]]

\* the left sibling after the parent's key and the node's entries were copied
InternalMergeSibling(sibling_page, internal_page, parent_page, pos) ==
    LET size1 == sibling_page.size_ + 1
    IN  [sibling_page EXCEPT
           !.size_ = size1 + internal_page.size_,
           !.array_ = [j \in Slots |->
                         IF j >= size1 /\ j < size1 + internal_page.size_
                         THEN internal_page.array_[j - size1]
                         ELSE IF j = sibling_page.size_
                              THEN Entry(KeyAt(parent_page, pos - 1),
                                         ValueAt(internal_page, 0))
                              ELSE sibling_page.array_[j]]]

\* the over-full merged sibling is cut at half: the node gets [half, size)
RedistributeNode(page, sibling_page) ==
    LET half == sibling_page.size_ \div 2
    IN  [page EXCEPT
           !.size_ = sibling_page.size_ - half,
           !.array_ = [j \in Slots |->
                         IF j + half < sibling_page.size_
                         THEN sibling_page.array_[j + half]
                         ELSE page.array_[j]]]
RedistributeSibling(sibling_page) ==
    [sibling_page EXCEPT !.size_ = sibling_page.size_ \div 2]
SetParentKey(parent_page, pos, key) ==
    [parent_page EXCEPT !.array_[pos].key = key]

\* as RemoveAtRoot, but an internal root is never replaced by its child
RemoveAtRoot_KeepRoot(s, pid, page, is_leaf) ==
    IF is_leaf
    THEN (IF page.size_ = 0
          THEN [s EXCEPT !.root = INVALID_PAGE_ID, !.deleted = @ \cup {pid}]
          ELSE s)
    ELSE s

\* road[0] fell under its minimum size
RemoveAtRoot(s, pid, page, is_leaf) ==
    IF is_leaf
    THEN (IF page.size_ = 0
          THEN [s EXCEPT !.root = INVALID_PAGE_ID, !.deleted = @ \cup {pid}]
          ELSE s)
    ELSE (IF page.size_ = 1
          THEN [s EXCEPT !.root = ValueAt(page, 0), !.deleted = @ \cup {pid}]
          ELSE s)

\* one pass of the bottom-up loop at road[i], and the passes above it;
\* s = [root, pgs, deleted, hang]; hang: the pass asks for the write guard
\* of a page whose write guard this call already holds
RECURSIVE RemoveLoop(_, _, _)
RemoveLoop(s, road, i) ==
    LET pid == road[i].first
        is_leaf == i = Len(road)
        page == RemoveEntry(s.pgs[pid], road[i].second)
        s1 == [s EXCEPT !.pgs[pid] = page]
    IN  IF page.size_ >= GetMinSize(page)
        THEN s1
        ELSE IF i = 1
        THEN RemoveAtRoot(s1, pid, page, is_leaf)
        ELSE LET parent_id == road[i - 1].first
                 parent_page == s1.pgs[parent_id]
                 pos == road[i - 1].second
                 sibling_id == ValueAt(parent_page, pos - 1)
             IN  IF pos = 0
                 THEN RemoveLoop(s1, road, i - 1)
                 ELSE IF sibling_id = pid \/ sibling_id = parent_id
                 THEN [s1 EXCEPT !.hang = TRUE]
                 ELSE LET sibling_page ==
                            IF is_leaf
                            THEN LeafMergeSibling(s1.pgs[sibling_id], page)
                            ELSE InternalMergeSibling(s1.pgs[sibling_id], page,
                                                      parent_page, pos)
                      IN  IF sibling_page.size_ <= sibling_page.max_size_
                          THEN RemoveLoop(
                                 [s1 EXCEPT
                                    !.pgs[sibling_id] =
                                       IF is_leaf
                                       THEN [sibling_page EXCEPT
                                               !.next_page_id_ = page.next_page_id_]
                                       ELSE sibling_page,
                                    !.deleted = @ \cup {pid}],
                                 road, i - 1)
                          ELSE LET new_page == RedistributeNode(page, sibling_page)
                               IN  [s1 EXCEPT
                                      !.pgs[pid] = new_page,
                                      !.pgs[sibling_id] = RedistributeSibling(sibling_page),
                                      !.pgs[parent_id] =
                                         SetParentKey(parent_page, pos, KeyAt(new_page, 0))]

\* the whole call: [found, root, pgs, deleted, hang]; found: the key was on
\* the leaf the descent reached, so the call went on to the bottom-up loop
RemoveResult(root, pgs, del, key) ==
    LET s0 == [root |-> root, pgs |-> pgs, deleted |-> del, hang |-> FALSE]
    IN  IF root = INVALID_PAGE_ID
        THEN [found |-> FALSE] @@ s0
        ELSE LET road0 == RemoveRoad(pgs, root, key)
                 leaf_page == pgs[road0[Len(road0)].first]
                 road == [road0 EXCEPT
                            ![Len(road0)].second = BinaryFindLeaf(leaf_page, key)]
             IN  IF RemoveKeyAbsent(leaf_page, key)
                 THEN [found |-> FALSE] @@ s0
                 ELSE [found |-> TRUE] @@ RemoveLoop(s0, road, Len(road))

(* ------------------------- calls and history -------------------------- *)
EmptyModel == [k \in {} |-> RidOf(0)]
ModelPut(m, k, v) == [x \in (DOMAIN m) \cup {k} |-> IF x = k THEN v ELSE m[x]]
ModelDel(m, k) == [x \in (DOMAIN m) \ {k} |-> m[x]]

\* a thread that is in no call; ret is what its last call returned
NoReturn == [found |-> FALSE, value |-> RidOf(0), it |-> IndexIterator(-1, -1)]
IdleThread ==
    [pc |-> "idle", op |-> "none", key |-> 0, cur |-> INVALID_PAGE_ID,
     slot_num |-> 0, road |-> <<>>, i |-> 0, new_key |-> 0,
     new_page_id |-> INVALID_PAGE_ID, ret |-> NoReturn, calls |-> 0]
ThreadsIdle ==
    /\ th = [t \in Threads |-> IdleThread]
    /\ held = {}

Init ==
    /\ leaf_max_size_ = LeafMaxSize
    /\ internal_max_size_ = InternalMaxSize
    /\ root_page_id_ = INVALID_PAGE_ID
    /\ pages = <<>>
    /\ deleted = {}
    /\ last = [op |-> "none", key |-> 0, ret |-> FALSE, value |-> RidOf(0)]
    /\ model = EmptyModel
    /\ shape = "ins"
    /\ K = {}
    /\ R = {}
    /\ nops = 0
    /\ ThreadsIdle

InsertCall(key, value) ==
    LET res == InsertResult(root_page_id_, pages, key, value,
                            leaf_max_size_, internal_max_size_)
    IN  /\ root_page_id_' = res.root
        /\ pages' = res.pgs
        /\ last' = [op |-> "Insert", key |-> key, ret |-> res.ret, value |-> RidOf(0)]
        /\ model' = IF res.ret THEN ModelPut(model, key, value) ELSE model
        /\ IF shape = "ins" /\ key \notin K
           THEN shape' = "ins" /\ K' = K \cup {key}
           ELSE shape' = "other" /\ K' = {}
        /\ R' = {}
        /\ nops' = nops + 1
        /\ UNCHANGED <<leaf_max_size_, internal_max_size_, deleted, th, held>>

RemoveCall(key) ==
    LET res == RemoveResult(root_page_id_, pages, deleted, key)
    IN  /\ ~res.hang
        /\ root_page_id_' = res.root
        /\ pages' = res.pgs
        /\ deleted' = res.deleted
        /\ last' = [op |-> "Remove", key |-> key, ret |-> res.found, value |-> RidOf(0)]
        /\ model' = ModelDel(model, key)
        /\ IF shape \in {"ins", "rem"} /\ key \in K \ R
           THEN shape' = "rem" /\ K' = K /\ R' = R \cup {key}
           ELSE shape' = "other" /\ K' = {} /\ R' = {}
        /\ nops' = nops + 1
        /\ UNCHANGED <<leaf_max_size_, internal_max_size_, th, held>>

GetValueCall(key) ==
    LET res == GetValue(root_page_id_, pages, key)
    IN  /\ last' = [op |-> "GetValue", key |-> key, ret |-> res.found, value |-> res.value]
        /\ UNCHANGED <<leaf_max_size_, internal_max_size_, root_page_id_, pages,
                       deleted, model, shape, K, R, nops, th, held>>

(* ---------------- Spec: any calls on keys 1..MaxKey ------------------- *)
Insert == \E key \in Keys, value \in Values : nops < MaxOps /\ InsertCall(key, value)
Remove == \E key \in Keys : nops < MaxOps /\ RemoveCall(key)

Next == Insert \/ Remove
Spec == Init /\ [][Next]_vars

(* ------- SpecInsert: InsertFromFile on any file of keys --------------- *)
InsertFromFile ==
    \E key \in InsertKeys : nops < MaxInsertOps /\ InsertCall(key, RidOf(key))
GetAfterInsert == \E key \in InsertKeys : GetValueCall(key)

NextInsert == InsertFromFile \/ GetAfterInsert
SpecInsert == Init /\ [][NextInsert]_vars

(* ---- SpecLoad: keys 1..LoadKeys in ascending order, then any calls --- *)
Loaded == nops >= LoadKeys
Load == nops < LoadKeys /\ InsertCall(nops + 1, RidOf(nops + 1))
InsertLoaded ==
    \E key \in LoadKeySet, value \in Values :
        Loaded /\ nops < LoadKeys + MaxLoadOps /\ InsertCall(key, value)
RemoveLoaded ==
    \E key \in LoadKeySet :
        Loaded /\ nops < LoadKeys + MaxLoadOps /\ RemoveCall(key)

NextLoad == Load \/ InsertLoaded \/ RemoveLoaded
SpecLoad == Init /\ [][NextLoad]_vars

(* ---- SpecBatch: BatchOpsFromFile on any file of i/d lines ------------ *)
BatchInsert ==
    \E key \in BatchKeys : nops < MaxBatchOps /\ InsertCall(key, RidOf(key))
BatchRemove == \E key \in BatchKeys : nops < MaxBatchOps /\ RemoveCall(key)

NextBatch == BatchInsert \/ BatchRemove
SpecBatch == Init /\ [][NextBatch]_vars

(* ---- SpecSizes: as SpecBatch, internal_max_size 2 as well ------------ *)
InitSizes ==
    /\ leaf_max_size_ = LeafMaxSize
    /\ internal_max_size_ \in {2, InternalMaxSize}
    /\ root_page_id_ = INVALID_PAGE_ID
    /\ pages = <<>>
    /\ deleted = {}
    /\ last = [op |-> "none", key |-> 0, ret |-> FALSE, value |-> RidOf(0)]
    /\ model = EmptyModel
    /\ shape = "ins"
    /\ K = {}
    /\ R = {}
    /\ nops = 0
    /\ ThreadsIdle
SizesInsert ==
    \E key \in SizesKeys : nops < MaxSizesOps /\ InsertCall(key, RidOf(key))
SizesRemove == \E key \in SizesKeys : nops < MaxSizesOps /\ RemoveCall(key)

NextSizes == SizesInsert \/ SizesRemove
SpecSizes == InitSizes /\ [][NextSizes]_vars

(* ---- SpecScenario: leaf_max = internal_max = 4; InsertFromFile of ---- *)
(* ---- 1,2,3,4,5 and then of any keys of 0..7                       ---- *)
InitScenario ==
    /\ leaf_max_size_ = 4
    /\ internal_max_size_ = 4
    /\ root_page_id_ = INVALID_PAGE_ID
    /\ pages = <<>>
    /\ deleted = {}
    /\ last = [op |-> "none", key |-> 0, ret |-> FALSE, value |-> RidOf(0)]
    /\ model = EmptyModel
    /\ shape = "ins"
    /\ K = {}
    /\ R = {}
    /\ nops = 0
    /\ ThreadsIdle
ScenarioLoad == nops < 5 /\ InsertCall(nops + 1, RidOf(nops + 1))
ScenarioInsert ==
    \E key \in 0..7 :
        nops >= 5 /\ nops < 5 + MaxScenarioOps /\ InsertCall(key, RidOf(key))

NextScenario == ScenarioLoad \/ ScenarioInsert
SpecScenario == InitScenario /\ [][NextScenario]_vars

(* ---- SpecSplit: max sizes 3..MaxSplitSize; InsertFromFile of keys ---- *)
(* ---- that each lie above or below all keys inserted before         ---- *)
InitSplit ==
    /\ leaf_max_size_ \in 3..MaxSplitSize
    /\ internal_max_size_ \in 3..MaxSplitSize
    /\ root_page_id_ = INVALID_PAGE_ID
    /\ pages = <<>>
    /\ deleted = {}
    /\ last = [op |-> "none", key |-> 0, ret |-> FALSE, value |-> RidOf(0)]
    /\ model = EmptyModel
    /\ shape = "ins"
    /\ K = {}
    /\ R = {}
    /\ nops = 0
    /\ ThreadsIdle
\* the next key of the file: above all keys so far, or below them
SplitKeyAbove ==
    IF K = {} THEN MaxSplitOps
    ELSE (CHOOSE k \in K : \A kk \in K : kk <= k) + 1
SplitKeyBelow == (CHOOSE k \in K : \A kk \in K : k <= kk) - 1
SplitInsertAbove ==
    nops < MaxSplitOps /\ InsertCall(SplitKeyAbove, RidOf(SplitKeyAbove))
SplitInsertBelow ==
    /\ K # {} /\ nops < MaxSplitOps
    /\ InsertCall(SplitKeyBelow, RidOf(SplitKeyBelow))

NextSplit == SplitInsertAbove \/ SplitInsertBelow
SpecSplit == InitSplit /\ [][NextSplit]_vars

(* ---- SpecFind: BinaryFind on any page with increasing keys ---------- *)
\* the search keys: the keys of the page, one below and one above them
FindKeys == 0..(MaxFindKey + 1)
\* the strictly increasing sequences of n keys
FindKeySeqs(n) ==
    {f \in [1..n -> 1..MaxFindKey] : \A i, j \in 1..n : i < j => f[i] < f[j]}
\* a leaf of n entries; the slots from size on hold the key stale
FindLeafPages ==
    {[NewLeafPage(MaxFindSize) EXCEPT
        !.size_ = Len(f),
        !.array_ = [j \in Slots |->
                      IF j < Len(f) THEN Entry(f[j + 1], RidOf(f[j + 1]))
                      ELSE Entry(stale, RidOf(0))]] :
     f \in UNION {FindKeySeqs(n) : n \in 0..MaxFindSize},
     stale \in {0, MaxFindKey + 1}}
\* an internal page of n children: slots 1..n-1 hold increasing keys, slot 0
\* holds any key; child j is page j + 2.  The page of no entries is included.
FindInternalPages ==
    {[NewInternalPage(MaxFindSize) EXCEPT
        !.size_ = Len(f) + 1,
        !.array_ = [j \in Slots |->
                      IF j = 0 THEN Entry(key0, 2)
                      ELSE IF j <= Len(f) THEN Entry(f[j], j + 2)
                           ELSE Entry(stale, 0)]] :
     f \in UNION {FindKeySeqs(m) : m \in 0..(MaxFindSize - 1)},
     key0 \in FindKeys,
     stale \in {0, MaxFindKey + 1}}
    \cup {NewInternalPage(MaxFindSize)}

InitFind ==
    /\ leaf_max_size_ = MaxFindSize
    /\ internal_max_size_ = MaxFindSize
    /\ root_page_id_ = 1
    /\ \/ pages \in {<<page>> : page \in FindLeafPages}
       \/ pages \in {<<page>> : page \in FindInternalPages}
    /\ deleted = {}
    /\ last = [op |-> "none", key |-> 0, ret |-> FALSE, value |-> RidOf(0)]
    /\ model = EmptyModel
    /\ shape = "other"
    /\ K = {}
    /\ R = {}
    /\ nops = 0
    /\ ThreadsIdle

\* thread 1 calls BinaryFind(page 1, key); the result goes to slot_num
BinaryFindLeafCall ==
    /\ IsLeafPage(pages[1])
    /\ \E key \in FindKeys :
          th' = [th EXCEPT ![1].op = "BinaryFind", ![1].key = key, ![1].cur = 1,
                           ![1].slot_num = BinaryFindLeaf(pages[1], key)]
    /\ UNCHANGED <<leaf_max_size_, internal_max_size_, root_page_id_, pages,
                   deleted, last, model, shape, K, R, nops, held>>
BinaryFindInternalCall ==
    /\ ~IsLeafPage(pages[1])
    /\ \E key \in FindKeys :
          th' = [th EXCEPT ![1].op = "BinaryFind", ![1].key = key, ![1].cur = 1,
                           ![1].slot_num = BinaryFindInternal(pages[1], key)]
    /\ UNCHANGED <<leaf_max_size_, internal_max_size_, root_page_id_, pages,
                   deleted, last, model, shape, K, R, nops, held>>

NextFind == BinaryFindLeafCall \/ BinaryFindInternalCall
SpecFind == InitFind /\ [][NextFind]_vars

(* ------------------- SpecThreads: concurrent calls -------------------- *)
(* Each thread runs one call of GetValue, Begin(key), Insert or Remove on  *)
(* the tree that holds the keys 1..ThreadLoadKeys.  A step of a thread     *)
(* runs up to and including the next FetchPageRead/FetchPageWrite that can *)
(* block; the guards of a call are released as the code releases them.     *)

\* the page guards: a read guard excludes write guards on the page, a
\* write guard excludes every other guard on it
Guard(t, pid, mode) == [thread |-> t, page |-> pid, mode |-> mode]
CanFetchRead(pid) == \A g \in held : g.page = pid => g.mode = "R"
CanFetchWrite(pid) == \A g \in held : g.page # pid
CanFetch(pid, mode) ==
    IF mode = "W" THEN CanFetchWrite(pid) ELSE CanFetchRead(pid)
GuardsOf(t) == {g \in held : g.thread = t}

Ops == {"GetValue", "Begin", "Insert", "Remove"}
IsMutator(op) == op \in {"Insert", "Remove"}

\* as HeaderMode, but Insert and Remove take a read guard on the header
HeaderMode_Read(op) == "R"

\* the guard a call takes on the header page: FetchPageWrite in Insert and
\* Remove, FetchPageRead in GetValue and Begin
HeaderMode(op) == IF IsMutator(op) THEN "W" ELSE "R"

\* the tree after InsertFromFile of the keys 1..n
RECURSIVE LoadedTree(_)
LoadedTree(n) ==
    IF n = 0
    THEN [root |-> INVALID_PAGE_ID, pgs |-> <<>>]
    ELSE LET s == LoadedTree(n - 1)
             res == InsertResult(s.root, s.pgs, n, RidOf(n),
                                 LeafMaxSize, InternalMaxSize)
         IN  [root |-> res.root, pgs |-> res.pgs]

InitThreads ==
    /\ leaf_max_size_ = LeafMaxSize
    /\ internal_max_size_ = InternalMaxSize
    /\ root_page_id_ = LoadedTree(ThreadLoadKeys).root
    /\ pages = LoadedTree(ThreadLoadKeys).pgs
    /\ deleted = {}
    /\ last = [op |-> "Insert", key |-> ThreadLoadKeys, ret |-> TRUE, value |-> RidOf(0)]
    /\ model = [k \in 1..ThreadLoadKeys |-> RidOf(k)]
    /\ shape = "ins"
    /\ K = 1..ThreadLoadKeys
    /\ R = {}
    /\ nops = ThreadLoadKeys
    /\ ThreadsIdle

\* the call returns: its guards go out of scope
Return(t, ret) ==
    /\ th' = [th EXCEPT ![t] = [IdleThread EXCEPT !.ret = ret, !.calls = th[t].calls]]
    /\ held' = held \ GuardsOf(t)
ReturnBool(b) == [NoReturn EXCEPT !.found = b]

\* a thread enters a call; thread t calls only after the threads below it
Call(t) ==
    /\ th[t].pc = "idle" /\ th[t].calls = 0
    /\ \A u \in Threads : u < t => th[u].calls > 0
    /\ \E op \in Ops, key \in ThreadKeys :
          th' = [th EXCEPT ![t] = [IdleThread EXCEPT
                    !.pc = "header", !.op = op, !.key = key, !.calls = 1]]
    /\ UNCHANGED <<leaf_max_size_, internal_max_size_, root_page_id_, pages,
                   deleted, last, model, shape, K, R, nops, held>>

\* FetchPageRead / FetchPageWrite of the header page
FetchHeader(t) ==
    /\ th[t].pc = "header"
    /\ CanFetch(header_page_id_, HeaderMode(th[t].op))
    /\ held' = held \cup {Guard(t, header_page_id_, HeaderMode(th[t].op))}
    /\ th' = [th EXCEPT ![t].pc = "root"]
    /\ UNCHANGED <<leaf_max_size_, internal_max_size_, root_page_id_, pages,
                   deleted, last, model, shape, K, R, nops>>

\* the test of root_page_id_ and the FetchPageRead of the root
FetchRoot(t) ==
    /\ th[t].pc = "root"
    /\ IF root_page_id_ = INVALID_PAGE_ID /\ th[t].op # "Insert"
       THEN /\ Return(t, NoReturn)
            /\ UNCHANGED <<root_page_id_, pages>>
       ELSE LET fresh == root_page_id_ = INVALID_PAGE_ID
                root == IF fresh THEN NextPageId(pages) ELSE root_page_id_
            IN  /\ CanFetchRead(root)
                /\ root_page_id_' = root
                /\ pages' = IF fresh
                            THEN Append(pages, NewLeafPage(leaf_max_size_))
                            ELSE pages
                /\ held' = IF IsMutator(th[t].op)
                           THEN held \cup {Guard(t, root, "R")}
                           ELSE (held \ {Guard(t, header_page_id_, "R")})
                                    \cup {Guard(t, root, "R")}
                /\ th' = [th EXCEPT
                            ![t].pc = "descend",
                            ![t].cur = root,
                            ![t].road = IF IsMutator(th[t].op)
                                        THEN <<[first |-> root, second |-> 0]>>
                                        ELSE <<>>]
    /\ UNCHANGED <<leaf_max_size_, internal_max_size_, deleted, last, model,
                   shape, K, R, nops>>

\* GetValue and Begin at the page they hold a read guard on: the result at
\* a leaf, else the FetchPageRead of the child, which releases the parent
ReadDescend(t) ==
    LET page == pages[th[t].cur]
        key == th[t].key
    IN  /\ th[t].pc = "descend" /\ ~IsMutator(th[t].op)
        /\ IF IsLeafPage(page)
           THEN LET slot_num == BinaryFindLeaf(page, key)
                IN  IF th[t].op = "GetValue"
                    THEN IF LeafHasKey(page, key)
                         THEN Return(t, [NoReturn EXCEPT
                                           !.found = TRUE,
                                           !.value = ValueAt(page, slot_num)])
                         ELSE Return(t, NoReturn)
                    ELSE IF slot_num # -1
                         THEN Return(t, [NoReturn EXCEPT
                                           !.it = IndexIterator(th[t].cur, slot_num)])
                         ELSE Return(t, NoReturn)
           ELSE LET child == ValueAt(page, BinaryFindInternal(page, key))
                IN  /\ CanFetchRead(child)
                    /\ held' = (held \ {Guard(t, th[t].cur, "R")})
                                   \cup {Guard(t, child, "R")}
                    /\ th' = [th EXCEPT ![t].cur = child]
        /\ UNCHANGED <<leaf_max_size_, internal_max_size_, root_page_id_, pages,
                       deleted, last, model, shape, K, R, nops>>

\* Insert and Remove at the page they hold a read guard on: the slot is
\* recorded in road and the guard dropped.  At the leaf the guard is dropped
\* first and the key tested on the page after that (lines 131-134, 276-279);
\* the page reads as it did under the guard, since its frame stays in the
\* pool and the header's write guard keeps every other writer out
PathDescend(t) ==
    LET page == pages[th[t].cur]
        key == th[t].key
        n == Len(th[t].road)
        dropped == held \ {Guard(t, th[t].cur, "R")}
    IN  /\ th[t].pc = "descend" /\ IsMutator(th[t].op)
        /\ IF IsLeafPage(page)
           THEN IF th[t].op = "Insert"
                THEN IF InsertKeyExists(page, key)
                     THEN Return(t, ReturnBool(FALSE))
                     ELSE /\ held' = dropped
                          /\ th' = [th EXCEPT ![t].pc = "loop", ![t].i = n]
                ELSE IF RemoveKeyAbsent(page, key)
                     THEN Return(t, NoReturn)
                     ELSE /\ held' = dropped
                          /\ th' = [th EXCEPT
                                      ![t].pc = "loop", ![t].i = n,
                                      ![t].road[n].second = BinaryFindLeaf(page, key)]
           ELSE LET slot_num == BinaryFindInternal(page, key)
                IN  /\ held' = dropped
                    /\ th' = [th EXCEPT
                                ![t].pc = "child",
                                ![t].slot_num = slot_num,
                                ![t].road =
                                    [th[t].road EXCEPT
                                       ![n].second = IF th[t].op = "Remove"
                                                     THEN slot_num ELSE 0]
                                    \o <<[first |-> ValueAt(page, slot_num),
                                          second |-> 0]>>]
        /\ UNCHANGED <<leaf_max_size_, internal_max_size_, root_page_id_, pages,
                       deleted, last, model, shape, K, R, nops>>

\* the FetchPageRead of the child during the descent of Insert and Remove;
\* the child's id is read from the page cur after the guard on it was dropped
PathFetchChild(t) ==
    LET child == ValueAt(pages[th[t].cur], th[t].slot_num)
    IN  /\ th[t].pc = "child"
        /\ CanFetchRead(child)
        /\ held' = held \cup {Guard(t, child, "R")}
        /\ th' = [th EXCEPT ![t].pc = "descend", ![t].cur = child]
        /\ UNCHANGED <<leaf_max_size_, internal_max_size_, root_page_id_, pages,
                       deleted, last, model, shape, K, R, nops>>

\* one pass of Insert's bottom-up loop: FetchPageWrite(road[i]) and the
\* pass to its end, where the write guards of the pass are released
InsertLevel(t) ==
    LET road == th[t].road
        i == th[t].i
        pid == road[i].first
        is_leaf == i = Len(road)
        page == IF is_leaf
                THEN InsertEntry(pages[pid], th[t].key, RidOf(th[t].key))
                ELSE InsertEntry(pages[pid], th[t].new_key, th[t].new_page_id)
        new_id == NextPageId(pages)
        old_page == IF is_leaf THEN LeafSplitOld(page, new_id)
                               ELSE InternalSplitOld(page)
        new_page == IF is_leaf THEN LeafSplitNew(page, leaf_max_size_)
                               ELSE InternalSplitNew(page, internal_max_size_)
        pgs1 == Append([pages EXCEPT ![pid] = old_page], new_page)
    IN  /\ th[t].pc = "loop" /\ th[t].op = "Insert"
        /\ CanFetchWrite(pid)
        /\ IF page.size_ <= page.max_size_
           THEN /\ pages' = [pages EXCEPT ![pid] = page]
                /\ UNCHANGED root_page_id_
                /\ Return(t, ReturnBool(TRUE))
           ELSE IF i = 1
           THEN /\ pages' = Append(pgs1,
                               NewRootPage(old_page, pid, KeyAt(new_page, 0),
                                           new_id, internal_max_size_))
                /\ root_page_id_' = NextPageId(pgs1)
                /\ Return(t, ReturnBool(TRUE))
           ELSE /\ pages' = pgs1
                /\ UNCHANGED <<root_page_id_, held>>
                /\ th' = [th EXCEPT
                            ![t].i = i - 1,
                            ![t].new_key = KeyAt(new_page, 0),
                            ![t].new_page_id = new_id]
        /\ UNCHANGED <<leaf_max_size_, internal_max_size_, deleted, last, model,
                       shape, K, R, nops>>

\* a pass of Remove's bottom-up loop up to the FetchPageWrite of the parent:
\* FetchPageWrite(road[i]), the entry is taken out, the size is tested
RemoveLevel(t) ==
    LET road == th[t].road
        i == th[t].i
        pid == road[i].first
        is_leaf == i = Len(road)
        page == RemoveEntry(pages[pid], road[i].second)
        pgs1 == [pages EXCEPT ![pid] = page]
        s == RemoveAtRoot([root |-> root_page_id_, pgs |-> pgs1,
                           deleted |-> deleted, hang |-> FALSE],
                          pid, page, is_leaf)
    IN  /\ th[t].pc = "loop" /\ th[t].op = "Remove"
        /\ CanFetchWrite(pid)
        /\ IF page.size_ >= GetMinSize(page)
           THEN /\ pages' = pgs1
                /\ UNCHANGED <<root_page_id_, deleted>>
                /\ Return(t, NoReturn)
           ELSE IF i = 1
           THEN /\ pages' = s.pgs
                /\ root_page_id_' = s.root
                /\ deleted' = s.deleted
                /\ Return(t, NoReturn)
           ELSE /\ pages' = pgs1
                /\ UNCHANGED <<root_page_id_, deleted>>
                /\ held' = held \cup {Guard(t, pid, "W")}
                /\ th' = [th EXCEPT ![t].pc = "parent"]
        /\ UNCHANGED <<leaf_max_size_, internal_max_size_, last, model,
                       shape, K, R, nops>>

\* FetchPageWrite of the parent, the write guard of road[i] being held; at
\* pos = 0 the pass ends here and its guards are released
RemoveFetchParent(t) ==
    LET road == th[t].road
        i == th[t].i
        parent_id == road[i - 1].first
        pos == road[i - 1].second
    IN  /\ th[t].pc = "parent"
        /\ CanFetchWrite(parent_id)
        /\ IF pos # 0
           THEN /\ held' = held \cup {Guard(t, parent_id, "W")}
                /\ th' = [th EXCEPT ![t].pc = "sibling"]
           ELSE /\ held' = held \ {Guard(t, road[i].first, "W")}
                /\ th' = [th EXCEPT ![t].pc = "loop", ![t].i = i - 1]
        /\ UNCHANGED <<leaf_max_size_, internal_max_size_, root_page_id_, pages,
                       deleted, last, model, shape, K, R, nops>>

\* FetchPageWrite of the left sibling, the write guards of road[i] and of
\* the parent being held, and the merge or redistribution
RemoveFetchSibling(t) ==
    LET road == th[t].road
        i == th[t].i
        pid == road[i].first
        is_leaf == i = Len(road)
        page == pages[pid]
        parent_id == road[i - 1].first
        parent_page == pages[parent_id]
        pos == road[i - 1].second
        sibling_id == ValueAt(parent_page, pos - 1)
        sibling_page == IF is_leaf
                        THEN LeafMergeSibling(pages[sibling_id], page)
                        ELSE InternalMergeSibling(pages[sibling_id], page,
                                                  parent_page, pos)
        new_page == RedistributeNode(page, sibling_page)
    IN  /\ th[t].pc = "sibling"
        /\ CanFetchWrite(sibling_id)
        /\ IF sibling_page.size_ <= sibling_page.max_size_
           THEN /\ pages' = [pages EXCEPT
                               ![sibling_id] =
                                  IF is_leaf
                                  THEN [sibling_page EXCEPT
                                          !.next_page_id_ = page.next_page_id_]
                                  ELSE sibling_page]
                /\ deleted' = deleted \cup {pid}
                /\ held' = held \ {Guard(t, pid, "W"), Guard(t, parent_id, "W")}
                /\ th' = [th EXCEPT ![t].pc = "loop", ![t].i = i - 1]
           ELSE /\ pages' = [pages EXCEPT
                               ![pid] = new_page,
                               ![sibling_id] = RedistributeSibling(sibling_page),
                               ![parent_id] =
                                  SetParentKey(parent_page, pos, KeyAt(new_page, 0))]
                /\ UNCHANGED deleted
                /\ Return(t, NoReturn)
        /\ UNCHANGED <<leaf_max_size_, internal_max_size_, root_page_id_, last,
                       model, shape, K, R, nops>>

ThreadCall == \E t \in Threads : Call(t)
ThreadFetchHeader == \E t \in Threads : FetchHeader(t)
ThreadFetchRoot == \E t \in Threads : FetchRoot(t)
ThreadReadDescend == \E t \in Threads : ReadDescend(t)
ThreadPathDescend == \E t \in Threads : PathDescend(t)
ThreadPathFetchChild == \E t \in Threads : PathFetchChild(t)
ThreadInsertLevel == \E t \in Threads : InsertLevel(t)
ThreadRemoveLevel == \E t \in Threads : RemoveLevel(t)
ThreadRemoveFetchParent == \E t \in Threads : RemoveFetchParent(t)
ThreadRemoveFetchSibling == \E t \in Threads : RemoveFetchSibling(t)

NextThreads ==
    \/ ThreadCall
    \/ ThreadFetchHeader
    \/ ThreadFetchRoot
    \/ ThreadReadDescend
    \/ ThreadPathDescend
    \/ ThreadPathFetchChild
    \/ ThreadInsertLevel
    \/ ThreadRemoveLevel
    \/ ThreadRemoveFetchParent
    \/ ThreadRemoveFetchSibling
SpecThreads == InitThreads /\ [][NextThreads]_vars

\* the Fetch a thread is at: the page and the mode it asks for
Wants(t) ==
    LET l == th[t]
    IN  CASE l.pc = "header" ->
               [page |-> header_page_id_, mode |-> HeaderMode(l.op)]
          [] l.pc = "root" /\ root_page_id_ # INVALID_PAGE_ID ->
               [page |-> root_page_id_, mode |-> "R"]
          [] l.pc = "descend" /\ ~IsMutator(l.op) /\ ~IsLeafPage(pages[l.cur]) ->
               [page |-> ValueAt(pages[l.cur], BinaryFindInternal(pages[l.cur], l.key)),
                mode |-> "R"]
          [] l.pc = "child" ->
               [page |-> ValueAt(pages[l.cur], l.slot_num), mode |-> "R"]
          [] l.pc = "loop" ->
               [page |-> l.road[l.i].first, mode |-> "W"]
          [] l.pc = "parent" ->
               [page |-> l.road[l.i - 1].first, mode |-> "W"]
          [] l.pc = "sibling" ->
               [page |-> ValueAt(pages[l.road[l.i - 1].first],
                                 l.road[l.i - 1].second - 1),
                mode |-> "W"]
          [] OTHER -> [page |-> INVALID_PAGE_ID, mode |-> "R"]
Waiting(t) ==
    Wants(t).page # INVALID_PAGE_ID /\ ~CanFetch(Wants(t).page, Wants(t).mode)
\* u holds a guard that keeps t waiting
HoldsAgainst(u, t) ==
    \E g \in held :
        /\ g.thread = u /\ g.page = Wants(t).page
        /\ (g.mode = "W" \/ Wants(t).mode = "W")
\* t is in Insert or Remove, past the Fetch of the header
InMutator(t) == IsMutator(th[t].op) /\ th[t].pc \notin {"idle", "header"}

(* ---- SpecReaders: GetValue of a stored key while other threads ------ *)
(* ---- Insert new keys                                              ---- *)
InitReaders ==
    /\ leaf_max_size_ = LeafMaxSize
    /\ internal_max_size_ = InternalMaxSize
    /\ root_page_id_ = LoadedTree(ReaderLoadKeys).root
    /\ pages = LoadedTree(ReaderLoadKeys).pgs
    /\ deleted = {}
    /\ last = [op |-> "Insert", key |-> ReaderLoadKeys, ret |-> TRUE, value |-> RidOf(0)]
    /\ model = [k \in ReaderKeys |-> RidOf(k)]
    /\ shape = "ins"
    /\ K = ReaderKeys
    /\ R = {}
    /\ nops = ReaderLoadKeys
    /\ ThreadsIdle

\* thread 1 calls GetValue on a key of the tree, the others Insert a new key
CallReader(t) ==
    /\ th[t].pc = "idle" /\ th[t].calls = 0
    /\ \E key \in (IF t = 1 THEN ReaderKeys ELSE ReaderInsertKeys) :
          th' = [th EXCEPT ![t] = [IdleThread EXCEPT
                    !.pc = "header",
                    !.op = IF t = 1 THEN "GetValue" ELSE "Insert",
                    !.key = key, !.calls = 1]]
    /\ UNCHANGED <<leaf_max_size_, internal_max_size_, root_page_id_, pages,
                   deleted, last, model, shape, K, R, nops, held>>
ReaderCall == \E t \in Threads : CallReader(t)

NextReaders ==
    \/ ReaderCall
    \/ ThreadFetchHeader
    \/ ThreadFetchRoot
    \/ ThreadReadDescend
    \/ ThreadPathDescend
    \/ ThreadPathFetchChild
    \/ ThreadInsertLevel
SpecReaders == InitReaders /\ [][NextReaders]_vars

(* ------------------- the tree as the claims see it -------------------- *)
PageIds == 1..Len(pages)

\* pages reachable from pid through child pointers (pid included)
RECURSIVE Subtree(_)
Subtree(pid) ==
    IF IsLeafPage(pages[pid])
    THEN {pid}
    ELSE {pid} \cup UNION {Subtree(ValueAt(pages[pid], i)) : i \in 0..(pages[pid].size_ - 1)}

Reachable == IF root_page_id_ = INVALID_PAGE_ID THEN {} ELSE Subtree(root_page_id_)
ReachableLeaves == {pid \in Reachable : IsLeafPage(pages[pid])}
ReachableInternals == {pid \in Reachable : ~IsLeafPage(pages[pid])}

LeafKeys(pid) == {KeyAt(pages[pid], j) : j \in 0..(pages[pid].size_ - 1)}
SubtreeKeys(pid) == UNION {LeafKeys(l) : l \in {x \in Subtree(pid) : IsLeafPage(pages[x])}}

\* depths at which leaves are found below pid, pid being at depth d
RECURSIVE LeafDepths(_, _)
LeafDepths(pid, d) ==
    IF IsLeafPage(pages[pid])
    THEN {d}
    ELSE UNION {LeafDepths(ValueAt(pages[pid], i), d + 1) : i \in 0..(pages[pid].size_ - 1)}

RECURSIVE LeftmostLeaf(_)
LeftmostLeaf(pid) ==
    IF IsLeafPage(pages[pid]) THEN pid ELSE LeftmostLeaf(ValueAt(pages[pid], 0))

\* keys of slots [0, size) of the leaves from pid on, following next_page_id_
\* (at most fuel leaves)
RECURSIVE ChainKeys(_, _)
ChainKeys(pid, fuel) ==
    IF pid = INVALID_PAGE_ID \/ fuel = 0
    THEN <<>>
    ELSE [j \in 1..pages[pid].size_ |-> KeyAt(pages[pid], j - 1)] \o
         ChainKeys(pages[pid].next_page_id_, fuel - 1)

\* the key sets of the leaves from pid on, following next_page_id_
RECURSIVE ChainLeaves(_, _)
ChainLeaves(pid, fuel) ==
    IF pid = INVALID_PAGE_ID \/ fuel = 0
    THEN <<>>
    ELSE <<LeafKeys(pid)>> \o ChainLeaves(pages[pid].next_page_id_, fuel - 1)

ScanLeaves ==
    IF root_page_id_ = INVALID_PAGE_ID
    THEN <<>>
    ELSE ChainLeaves(LeftmostLeaf(root_page_id_), Len(pages) + 1)

ScanKeys ==
    IF root_page_id_ = INVALID_PAGE_ID
    THEN <<>>
    ELSE ChainKeys(LeftmostLeaf(root_page_id_), Len(pages) + 1)

RECURSIVE SortedSeq(_)
SortedSeq(S) ==
    IF S = {}
    THEN <<>>
    ELSE LET m == CHOOSE x \in S : \A y \in S : x <= y
         IN  <<m>> \o SortedSeq(S \ {m})

\* the entries in slots [0, size) of a page, in slot order
PageEntries(page) == [j \in 1..page.size_ |-> page.array_[j - 1]]

\* size, next_page_id_ and the entries in slots [0, size) of every page
PageView(page) ==
    [page_type_ |-> page.page_type_, size_ |-> page.size_,
     next_page_id_ |-> page.next_page_id_,
     entries |-> [j \in 0..(page.size_ - 1) |-> page.array_[j]]]
TreeView == [pid \in PageIds |-> PageView(pages[pid])]

RootIsInternal ==
    root_page_id_ # INVALID_PAGE_ID /\ ~IsLeafPage(pages[root_page_id_])

(* ------------------------------ claims -------------------------------- *)

\* C1: while the calls so far are Inserts of distinct keys K into the fresh
\* tree, every one of them returned true (model holds exactly K) and
\* GetValue(k) returns true with the inserted value for k in K and false for
\* every other key.
C1_InsertThenGet ==
    shape = "ins" =>
        /\ DOMAIN model = K
        /\ \A k \in InsertKeys :
              GetValue(root_page_id_, pages, k) =
                  IF k \in K THEN [found |-> TRUE, value |-> model[k]]
                             ELSE [found |-> FALSE, value |-> RidOf(0)]

\* C2: when the calls so far are Inserts of distinct keys K followed by a
\* Remove of every key of K, the tree is empty: root_page_id_ is
\* INVALID_PAGE_ID and IsEmpty() is true.
C2_InsertAllRemoveAll ==
    (shape = "rem" /\ R = K) =>
        (root_page_id_ = INVALID_PAGE_ID /\ IsEmpty)

\* C3: an Insert of a key whose earlier Insert returned true, with no
\* Remove of that key since (the key is in model), returns false.
C3_ReinsertReturnsFalse ==
    [][(last'.op = "Insert" /\ last'.key \in DOMAIN model) => last'.ret = FALSE]_vars

\* C4: an Insert of a key held by the leaf its descent reaches returns false
\* and leaves root_page_id_, the allocated pages and every page's size,
\* entries and next_page_id_ as they were.
C4_DuplicateInsertNoChange ==
    [][(last'.op = "Insert" /\ nops' = nops + 1
        /\ GetValue(root_page_id_, pages, last'.key).found)
       => (/\ last'.ret = FALSE
           /\ root_page_id_' = root_page_id_
           /\ Len(pages') = Len(pages)
           /\ deleted' = deleted
           /\ TreeView' = TreeView)]_vars

\* a duplicate Insert has returned false below an internal root
C4_Witness ==
    /\ last.op = "Insert" /\ last.ret = FALSE
    /\ RootIsInternal
    /\ GetValue(root_page_id_, pages, last.key).found

\* C5: a Remove on the empty tree, or of a key the leaf its descent reaches
\* does not hold, changes nothing: root_page_id_, every page's size, entries
\* and next_page_id_ stay and no page is passed to DeletePage.
C5_AbsentRemoveNoChange ==
    [][(last'.op = "Remove" /\ nops' = nops + 1
        /\ ~GetValue(root_page_id_, pages, last'.key).found)
       => (/\ root_page_id_' = root_page_id_
           /\ Len(pages') = Len(pages)
           /\ deleted' = deleted
           /\ TreeView' = TreeView)]_vars

\* a Remove of an absent key has returned below an internal root
C5_Witness ==
    /\ last.op = "Remove" /\ last.ret = FALSE
    /\ RootIsInternal
    /\ model # EmptyModel

\* C6: in every internal page reachable from the root, every key stored
\* under child i is >= key[i] (for i >= 1) and < key[i+1] (for i+1 < size).
C6_ChildKeyRanges ==
    \A pid \in ReachableInternals :
        \A i \in 0..(pages[pid].size_ - 1) :
            \A k \in SubtreeKeys(ValueAt(pages[pid], i)) :
                /\ (i >= 1 => k >= KeyAt(pages[pid], i))
                /\ (i + 1 < pages[pid].size_ => k < KeyAt(pages[pid], i + 1))

\* C7: the leaf chain from the leftmost leaf holds exactly the keys inserted
\* and not since removed, each once, in ascending order.
C7_LeafChainScan == ScanKeys = SortedSeq(DOMAIN model)

\* C8: keys of slots [0, size) of every reachable leaf and of slots
\* [1, size) of every reachable internal page are strictly increasing, and
\* no key is in two leaf slots of the tree.
C8_StrictlyIncreasing ==
    /\ \A pid \in Reachable :
          \A i, j \in (IF IsLeafPage(pages[pid]) THEN 0 ELSE 1)..(pages[pid].size_ - 1) :
              i < j => KeyAt(pages[pid], i) < KeyAt(pages[pid], j)
    /\ \A p, q \in ReachableLeaves :
          \A i \in 0..(pages[p].size_ - 1), j \in 0..(pages[q].size_ - 1) :
              (KeyAt(pages[p], i) = KeyAt(pages[q], j)) => (p = q /\ i = j)

\* C9: every leaf page allocated and not passed to DeletePage is reachable
\* from root_page_id_, and all reachable leaves are at the same depth.
C9_LeavesReachableSameDepth ==
    /\ \A pid \in PageIds :
          (IsLeafPage(pages[pid]) /\ pid \notin deleted) => pid \in ReachableLeaves
    /\ (root_page_id_ # INVALID_PAGE_ID =>
            Cardinality(LeafDepths(root_page_id_, 0)) = 1)

\* C10: every reachable page other than the root has size in
\* [ceil(max_size / 2), max_size].
C10_MinOccupancy ==
    \A pid \in Reachable \ {root_page_id_} :
        /\ 2 * pages[pid].size_ >= pages[pid].max_size_
        /\ pages[pid].size_ <= pages[pid].max_size_

\* C11: in every internal page reachable from the root, for every slot
\* i >= 1, key[i] is the smallest key stored in the subtree of child i.
C11_RoutingKeyIsSubtreeMin ==
    \A pid \in ReachableInternals :
        \A i \in 1..(pages[pid].size_ - 1) :
            LET keys == SubtreeKeys(ValueAt(pages[pid], i))
            IN  /\ KeyAt(pages[pid], i) \in keys
                /\ \A k \in keys : KeyAt(pages[pid], i) <= k

\* C14: on a non-empty tree Begin(key) is the iterator at the first slot of
\* the reached leaf whose key is >= key, and End() when the reached leaf has
\* no such slot.
C14_BeginAtFirstNotLess ==
    root_page_id_ # INVALID_PAGE_ID =>
        \A key \in 0..(MaxKey + 1) :
            LET leaf_id == FindLeaf(pages, root_page_id_, key)
                ge == {j \in 0..(pages[leaf_id].size_ - 1) :
                          KeyAt(pages[leaf_id], j) >= key}
            IN  Begin(root_page_id_, pages, key) =
                    IF ge = {}
                    THEN End
                    ELSE IndexIterator(leaf_id,
                                       CHOOSE j \in ge : \A jj \in ge : j <= jj)

C16_ScenarioLeaves ==
    (shape = "ins" /\ K = 0..7) =>
        /\ ScanLeaves = <<{0, 1, 2}, {3, 4, 5}, {6, 7}>>
        /\ ScanKeys = <<0, 1, 2, 3, 4, 5, 6, 7>>

\* C16 amended: the leaves in chain order hold {0,1,2}, {3,4}, {5,6,7} and
\* the scan of the chain gives 0..7.
C16_ScenarioLeavesSplitDown ==
    (shape = "ins" /\ K = 0..7) =>
        /\ ScanLeaves = <<{0, 1, 2}, {3, 4}, {5, 6, 7}>>
        /\ ScanKeys = <<0, 1, 2, 3, 4, 5, 6, 7>>

\* 1..5 and then 0, 6, 7 were inserted, each Insert returning true
C16_Witness ==
    /\ shape = "ins" /\ K = 0..7 /\ DOMAIN model = 0..7
    /\ last.op = "Insert" /\ last.ret = TRUE

\* C17 (leaf level): when a Remove takes a key from a non-root leaf that is
\* the child at slot 0 of its parent and leaves it under its minimum size,
\* nothing else changes: root_page_id_ stays, no page is passed to
\* DeletePage and every page other than the leaf, its parent included, is
\* as before, so the leaf stays reachable with its remaining entries.
C17_Slot0UnderflowReturns ==
    [][(/\ last'.op = "Remove" /\ nops' = nops + 1
        /\ root_page_id_ # INVALID_PAGE_ID
        /\ LET road == RemoveRoad(pages, root_page_id_, last'.key)
               leaf_page == pages[road[Len(road)].first]
           IN  /\ Len(road) >= 2
               /\ ~RemoveKeyAbsent(leaf_page, last'.key)
               /\ road[Len(road) - 1].second = 0
               /\ leaf_page.size_ - 1 < GetMinSize(leaf_page))
       => LET road == RemoveRoad(pages, root_page_id_, last'.key)
              leaf_id == road[Len(road)].first
          IN  /\ root_page_id_' = root_page_id_
              /\ deleted' = deleted
              /\ pages' = [pages EXCEPT
                             ![leaf_id] =
                                RemoveEntry(pages[leaf_id],
                                            BinaryFindLeaf(pages[leaf_id], last'.key))]
              /\ leaf_id \in Subtree(root_page_id_)']_vars

\* C18: when a Remove takes a key from a non-root leaf at parent slot
\* pos >= 1 and leaves it under its minimum size, the left sibling and the
\* leaf end up with the sibling's old entries followed by the leaf's
\* remaining entries: all in the sibling when they fit in leaf_max (the
\* sibling then has the leaf's next_page_id_ and the leaf is passed to
\* DeletePage), otherwise cut at the midpoint between sibling and leaf, the
\* parent's key at pos being the leaf's new first key.
C18_LeafMergeKeepsEntries ==
    [][(/\ last'.op = "Remove" /\ nops' = nops + 1
        /\ root_page_id_ # INVALID_PAGE_ID
        /\ LET road == RemoveRoad(pages, root_page_id_, last'.key)
               leaf_page == pages[road[Len(road)].first]
           IN  /\ Len(road) >= 2
               /\ ~RemoveKeyAbsent(leaf_page, last'.key)
               /\ road[Len(road) - 1].second >= 1
               /\ leaf_page.size_ - 1 < GetMinSize(leaf_page))
       => LET road == RemoveRoad(pages, root_page_id_, last'.key)
              leaf_id == road[Len(road)].first
              parent_id == road[Len(road) - 1].first
              pos == road[Len(road) - 1].second
              sibling_id == ValueAt(pages[parent_id], pos - 1)
              rest == PageEntries(RemoveEntry(pages[leaf_id],
                                  BinaryFindLeaf(pages[leaf_id], last'.key)))
              all == PageEntries(pages[sibling_id]) \o rest
              half == Len(all) \div 2
          IN  IF Len(all) <= pages[leaf_id].max_size_
              THEN /\ PageEntries(pages'[sibling_id]) = all
                   /\ pages'[sibling_id].next_page_id_ = pages[leaf_id].next_page_id_
                   /\ leaf_id \in deleted'
              ELSE /\ PageEntries(pages'[sibling_id]) = SubSeq(all, 1, half)
                   /\ PageEntries(pages'[leaf_id]) = SubSeq(all, half + 1, Len(all))
                   /\ KeyAt(pages'[parent_id], pos) = all[half + 1].key]_vars

\* C19: the merge of an under-full internal page into its left sibling
\* keeps every child page id once: no page id is the child of two slots of
\* the internal pages reachable from the root.
C19_NoChildTwice ==
    \A p, q \in ReachableInternals :
        \A i \in 0..(pages[p].size_ - 1), j \in 0..(pages[q].size_ - 1) :
            (ValueAt(pages[p], i) = ValueAt(pages[q], j)) => (p = q /\ i = j)

\* C20: the tree agrees with the reference map (model, which is that map as
\* long as every Insert so far returned true exactly for an absent key): an
\* Insert returns true exactly when its key is not in the map, after every
\* call GetValue(k) finds k with value v exactly when the map holds k -> v,
\* and a call on key k leaves GetValue(k2) as it was for every k2 # k.
C20_AgreesWithMap ==
    [][(last'.op \in {"Insert", "Remove"} /\ nops' = nops + 1) =>
          /\ (last'.op = "Insert" => (last'.ret = (last'.key \notin DOMAIN model)))
          /\ \A k \in Keys :
                GetValue(root_page_id_', pages', k) =
                    IF k \in DOMAIN model'
                    THEN [found |-> TRUE, value |-> model'[k]]
                    ELSE [found |-> FALSE, value |-> RidOf(0)]
          /\ \A k \in Keys \ {last'.key} :
                GetValue(root_page_id_', pages', k) =
                    GetValue(root_page_id_, pages, k)]_vars

\* C12: there is no set of threads each of which waits for a page guard
\* that another thread of the set holds (such threads never return).
C12_NoGuardDeadlock ==
    \A S \in SUBSET Threads :
        S # {} =>
            ~(\A t \in S : Waiting(t) /\ \E u \in S \ {t} : HoldsAgainst(u, t))

\* C13: a thread that is in Insert or Remove past the Fetch of the header
\* holds the header's write guard, no two threads are there at once, and
\* while a thread is there no step of another thread changes
\* root_page_id_, a node page or the pages passed to DeletePage.
C13_HeaderGuardExcludesMutators ==
    [][/\ \A t \in Threads :
             InMutator(t)' => Guard(t, header_page_id_, "W") \in held'
       /\ \A t, u \in Threads : (InMutator(t)' /\ InMutator(u)') => t = u
       /\ \A t \in Threads :
             (InMutator(t) /\ th'[t] = th[t]) =>
                 (/\ root_page_id_' = root_page_id_
                  /\ pages' = pages
                  /\ deleted' = deleted)]_vars

\* a thread is in the bottom-up loop of Insert or Remove while another
\* thread that called Insert or Remove waits for the header's write guard
C13_Witness ==
    \E t, u \in Threads :
        /\ t # u
        /\ InMutator(t) /\ th[t].pc \in {"loop", "parent", "sibling"}
        /\ th[u].pc = "header" /\ IsMutator(th[u].op) /\ Waiting(u)

\* C21: a GetValue(k) of a key k that is stored in the tree and that no
\* thread removes returns true with k's value, also while other threads
\* Insert other keys and split a node on k's search path
C21_GetValueFindsStoredKey ==
    [][\A t \in Threads :
          (/\ th[t].op = "GetValue" /\ th[t].key \in DOMAIN model
           /\ th[t].pc # "idle" /\ th'[t].pc = "idle") =>
              (/\ th'[t].ret.found
               /\ th'[t].ret.value = model[th[t].key])]_vars

\* C22: in the descent of GetValue and Begin the read guard of the parent
\* is released before the read guard of the child is requested: a thread
\* that asks for a child's guard holds no guard on a node page
C22_ParentReleasedBeforeChild ==
    \A t \in Threads :
        (/\ th[t].pc = "descend" /\ ~IsMutator(th[t].op)
         /\ ~IsLeafPage(pages[th[t].cur])) =>
            \A g \in GuardsOf(t) : g.page \notin PageIds

\* C23: Insert and Remove read a node page only while they hold a guard on
\* it: the thread that reads the child's id from the page cur holds a guard
\* on cur
C23_ReadsUnderGuard ==
    \A t \in Threads :
        th[t].pc = "child" => \E g \in GuardsOf(t) : g.page = th[t].cur

\* the splits of an Insert step: the j-th split (from the leaf upward) is
\* that of the j-th page of the road from its end, its new right sibling is
\* the j-th page allocated by the call
SplitRoad == InsertRoad(pages, root_page_id_, last'.key)
SplitCount ==
    IF last'.op = "Insert" /\ nops' = nops + 1 /\ root_page_id_ # INVALID_PAGE_ID
    THEN Len(pages') - Len(pages)
            - (IF root_page_id_' # root_page_id_ THEN 1 ELSE 0)
    ELSE 0
SplitOldId(j) == SplitRoad[Len(SplitRoad) - j + 1]
SplitNewId(j) == Len(pages) + j
\* the page of the j-th split when it is over-full, before it is split
SplitOverfull(j) ==
    IF j = 1
    THEN InsertEntry(pages[SplitOldId(j)], last'.key, model'[last'.key])
    ELSE InsertEntry(pages[SplitOldId(j)],
                     KeyAt(pages'[SplitNewId(j - 1)], 0), SplitNewId(j - 1))

\* C24: a split of a node of max_size + 1 entries moves the slots
\* [floor(size/2), size) to the new right sibling and leaves both halves
\* with at least ceil(max_size/2) entries; the new leaf takes over the old
\* leaf's next pointer, the old leaf points to the new one, and the key
\* carried to the parent is the first key of the new sibling
C24_SplitMovesUpperHalf ==
    [][\A j \in 1..SplitCount :
          LET over == SplitOverfull(j)
              size == over.size_
              half == size \div 2
              old_page == pages'[SplitOldId(j)]
              new_page == pages'[SplitNewId(j)]
          IN  /\ size = over.max_size_ + 1
              /\ over.max_size_ = (IF j = 1 THEN leaf_max_size_
                                            ELSE internal_max_size_)
              /\ IsLeafPage(old_page) = (j = 1)
              /\ IsLeafPage(new_page) = (j = 1)
              /\ old_page.size_ = half
              /\ new_page.size_ = size - half
              /\ \A i \in 0..(half - 1) : old_page.array_[i] = over.array_[i]
              /\ \A i \in half..(size - 1) :
                     new_page.array_[i - half] = over.array_[i]
              /\ 2 * old_page.size_ >= over.max_size_
              /\ 2 * new_page.size_ >= over.max_size_
              /\ (j = 1) =>
                     (/\ new_page.next_page_id_ =
                            pages[SplitOldId(j)].next_page_id_
                      /\ old_page.next_page_id_ = SplitNewId(j))
              /\ \E q \in 1..Len(pages') :
                     /\ ~IsLeafPage(pages'[q])
                     /\ \E i \in 0..(pages'[q].size_ - 1) :
                            pages'[q].array_[i] =
                                Entry(KeyAt(new_page, 0), SplitNewId(j))]_vars
\* the last Insert split a leaf with a right neighbour, an internal node
\* above it, and made a new root
C24_Witness ==
    /\ last.op = "Insert" /\ last.ret
    /\ Len(pages) >= 3
    /\ root_page_id_ = Len(pages)
    /\ ~IsLeafPage(pages[Len(pages) - 1])
    /\ IsLeafPage(pages[Len(pages) - 2])
    /\ pages[Len(pages) - 2].next_page_id_ # INVALID_PAGE_ID

\* C25: a split leaf of size = leaf_max + 1 keeps floor((size+1)/2) entries,
\* a split internal node of size = internal_max + 1 keeps floor(size/2);
\* the new sibling gets the remainder
C25_SplitSizes ==
    [][\A j \in 1..SplitCount :
          LET size == SplitOverfull(j).size_
              keeps == IF j = 1 THEN (size + 1) \div 2 ELSE size \div 2
          IN  /\ pages'[SplitOldId(j)].size_ = keeps
              /\ pages'[SplitNewId(j)].size_ = size - keeps]_vars
\* C25 (amended): a split leaf and a split internal node both keep
\* floor(size/2) entries, the new sibling gets the remainder
C25_SplitSizesFloor ==
    [][\A j \in 1..SplitCount :
          LET size == SplitOverfull(j).size_
              keeps == size \div 2
          IN  /\ size = (IF j = 1 THEN leaf_max_size_ ELSE internal_max_size_) + 1
              /\ pages'[SplitOldId(j)].size_ = keeps
              /\ pages'[SplitNewId(j)].size_ = size - keeps]_vars
\* with an even leaf_max_size, where the two roundings differ: the last
\* Insert split a leaf and an internal node and made a new root
C25_Witness ==
    /\ leaf_max_size_ % 2 = 0
    /\ last.op = "Insert" /\ last.ret
    /\ Len(pages) >= 3
    /\ root_page_id_ = Len(pages)
    /\ ~IsLeafPage(pages[Len(pages) - 1])
    /\ IsLeafPage(pages[Len(pages) - 2])

\* the largest slot of [from, size) whose key is <= key, else none
LargestSlotNotAbove(page, key, from, none) ==
    LET S == {i \in from..(page.size_ - 1) : KeyAt(page, i) <= key}
    IN  IF S = {} THEN none ELSE CHOOSE i \in S : \A ii \in S : ii <= i

\* C26: on a page with increasing keys BinaryFind returns, for a leaf, the
\* largest slot of [0, size) whose key is <= key, or -1 when there is none;
\* for an internal page the largest slot of [1, size) whose key is <= key,
\* or 0 when there is none, whatever key slot 0 holds
C26_BinaryFind ==
    \A t \in Threads :
        th[t].op = "BinaryFind" =>
            LET page == pages[th[t].cur]
                key == th[t].key
            IN  IF IsLeafPage(page)
                THEN th[t].slot_num = LargestSlotNotAbove(page, key, 0, -1)
                ELSE /\ th[t].slot_num = LargestSlotNotAbove(page, key, 1, 0)
                     /\ \A key0 \in FindKeys :
                            BinaryFindInternal(
                                [page EXCEPT !.array_[0].key = key0], key)
                              = th[t].slot_num
\* BinaryFind ran on an internal page of three or more children whose slot 0
\* holds a key above the search key, and found a slot past slot 0
C26_Witness ==
    /\ th[1].op = "BinaryFind"
    /\ ~IsLeafPage(pages[1])
    /\ pages[1].size_ >= 3
    /\ KeyAt(pages[1], 0) > th[1].key
    /\ th[1].slot_num >= 1
====
